---------------------------- MODULE Spec2Model ----------------------------
(***************************************************************************)
(* A model of src/server.js: a Socket.IO server with a fixed-window rate   *)
(* limiter, authentication-gated claims, and a Redis pub/sub fan-out       *)
(* shared by sibling instances (src/ecosystem.config.js runs the script in *)
(* cluster mode, one process per core).                                    *)
(*                                                                         *)
(* Payload fields that only carry Date.now() (connection_time, time,       *)
(* broadcast_time, server_time) are left out of the emitted events.        *)
(***************************************************************************)
EXTENDS Integers, Sequences, FiniteSets, TLC

\* ------------------------------------------------------------------ bounds
\* Clock advances the model takes.
MaxTicks == 1
\* checkRateLimit calls logged for the probed key (SpecRL).
MaxCalls == 12
\* checkRateLimit calls made on the key beside the probed one (SpecRL).
MaxNoise == 1
\* lRange calls of sendRecentCodes that may be outstanding at once.
MaxPending == 1
\* Sockets and client events of two connections under one username.
SharedSockets == 2
SharedEvents == 13
\* Elements of the longest list recent_codes that lRange reads.
MaxStored == 11
\* Sockets and client events (authenticate, claim_code, disconnect) of Spec.
SessionSockets == 3
SessionEvents == 2
\* Sockets and client events of SpecBurst.
BurstSockets == 1
BurstEvents == 12
\* Sockets and client events of SpecAdmit.
AdmitSockets == 6
AdmitEvents == 1
\* Sockets and client events of SpecLife.
LifeSockets == 2
LifeEvents == 3
\* Instances, sockets, client events and published messages of SpecBus.
BusServers == 2
BusSockets == 2
BusEvents == 1
BusPublished == 1

\* ------------------------------------------------------- program constants
CONNECTION_RATE_LIMIT == 5
MESSAGE_RATE_LIMIT == 10
\* The literal 60000 of checkRateLimit: the length of a window, in ms.
WindowMs == 60000
\* username.length >= 3
MinUsernameLength == 3

VARIABLES
    now,             \* Date.now(), in ms
    ticks,           \* clock advances taken so far
    scn,             \* the name of the scenario that runs
    pc,              \* per instance: where startServer() is
    redisConnected,  \* per instance: the flag redisConnected
    adapterAttached, \* per instance: io.adapter(createAdapter(..)) was called
    subscribed,      \* per instance: subscribed to the channel bonus_codes
    connectionStats, \* per instance: the object connectionStats
    userRateLimits,  \* per instance: the Map userRateLimits
    sock,            \* per socket: the transport's and the handlers' state
    subQ,            \* per instance: messages in flight to its subClient
    pendingRecent,   \* sockets whose sendRecentCodes awaits lRange
    events,          \* client events handled so far (with disconnects)
    published,       \* messages the backend published: [message, subscribers]
    out,             \* what the last handler run emitted, per socket
    bonusRecv,       \* per socket: the bonus_code events its client received
    claimRun,        \* per socket: its claim_code events under one identity
    admitRun,        \* per instance and address: the connection attempts of a window
    busFault,        \* per instance: the step of the bus setup that failed
    probe,           \* SpecRL: the (userId, type) whose calls are logged
    other,           \* SpecRL: another (userId, type), called beside it
    rlLog,           \* SpecRL: the probed key's calls: [time, ok, changed]
    noise            \* SpecRL: calls made on the other key

clock == <<now, ticks>>
redis == <<redisConnected, adapterAttached, subscribed>>
rlGhost == <<probe, other, rlLog, noise>>
ghost == <<events, published, out, bonusRecv, claimRun, admitRun, busFault>>
vars == <<clock, scn, pc, redis, connectionStats, userRateLimits, sock, subQ,
          pendingRecent, ghost, rlGhost>>

\* ------------------------------------------------------------------ values
\* undefined: a field or a property that was never set.
Undefined == "<undefined>"
\* A payload that is null or undefined, not an object.
Null == [null |-> TRUE]
IsObject(data) == "null" \notin DOMAIN data
\* A field of an object payload, undefined when the object lacks it.
Field(data, f) == IF f \in DOMAIN data THEN data[f] ELSE Undefined
\* JavaScript's truthiness, of undefined and of strings.
Truthy(v) == v \notin {Undefined, ""}

\* socket.id, assigned by the transport.
SocketId(s) == "sock" \o ToString(s)

\* A message on a Redis channel is text: JSON of an object, or anything else.
JSONstringify(obj) == [text |-> "json", value |-> obj]
Garbage == [text |-> "garbage"]
\* JSON.parse: the object, or a thrown SyntaxError.
JSONparse(message) ==
    IF message.text = "json" THEN [ok |-> TRUE, value |-> message.value]
    ELSE [ok |-> FALSE]

\* ------------------------------------------------------------------- clock
\* The clock moves to the middle of a window opened now, to its reset time
\* exactly, or one millisecond past it.
TickSteps == {WindowMs \div 2, WindowMs, WindowMs + 1}

Tick ==
    /\ ticks < MaxTicks
    /\ \E d \in TickSteps : now' = now + d
    /\ ticks' = ticks + 1
    /\ UNCHANGED <<scn, pc, redis, connectionStats, userRateLimits, sock, subQ,
                   pendingRecent, ghost, rlGhost>>

\* --------------------------------------------------------------- scenarios
\* What a specification lets the environment do: the instances started and
\* the SERVER_ID each finds in its environment, the sockets that may connect,
\* the addresses and handshake userIds they come with, the sockets that go
\* on to send events or to disconnect, the payloads clients send, whether a
\* client that is logged in sends authenticate again, the lists recent_codes
\* may hold, and how many client events and published messages
\* there are.
NoServerEnv == [i \in 1..1 |-> Undefined]

\* One element of the list recent_codes, as the backend stored it.
Stored(k) == JSONstringify([code |-> "R" \o ToString(k)])

\* What lRange can find under recent_codes: nothing, one code, a code and
\* an element that is not JSON, more codes than one replay carries.
RecentLists ==
    {<< >>, <<Stored(1)>>, <<Stored(1), Garbage>>,
     [k \in 1..MaxStored |-> Stored(k)]}

SessionScn ==
    [servers |-> 1..1, serverEnv |-> NoServerEnv,
     sockets |-> 1..SessionSockets, addresses |-> {"10.0.0.1"},
     queries |-> {""}, senders |-> 1..SessionSockets,
     authData |-> {Null, [username |-> "alice"], [username |-> "bob"],
                   [username |-> "ab"]},
     claimData |-> {Null, [code |-> "X1"],
                    [code |-> "X2", auto_claim |-> TRUE]},
     recent |-> RecentLists, relogin |-> TRUE,
     maxEvents |-> SessionEvents, maxPublished |-> 0]

BurstScn ==
    [servers |-> 1..1, serverEnv |-> NoServerEnv,
     sockets |-> 1..BurstSockets, addresses |-> {"10.0.0.1"},
     queries |-> {"", "alice"}, senders |-> 1..BurstSockets,
     authData |-> {[username |-> "alice"]}, claimData |-> {[code |-> "X1"]},
     recent |-> {<<Stored(1)>>}, relogin |-> TRUE,
     maxEvents |-> BurstEvents, maxPublished |-> 0]

\* Of the sockets that try to connect, the first and the last send events.
AdmitScn ==
    [servers |-> 1..1, serverEnv |-> NoServerEnv,
     sockets |-> 1..AdmitSockets, addresses |-> {"10.0.0.1"},
     queries |-> {""}, senders |-> {1, AdmitSockets},
     authData |-> {[username |-> "alice"]}, claimData |-> {[code |-> "X1"]},
     recent |-> {<<Stored(1)>>}, relogin |-> TRUE,
     maxEvents |-> AdmitEvents, maxPublished |-> 0]

BusScn ==
    [servers |-> 1..BusServers,
     serverEnv |-> [i \in 1..BusServers |-> "srv" \o ToString(i)],
     sockets |-> 1..BusSockets, addresses |-> {"10.0.0.1"},
     queries |-> {""}, senders |-> 1..BusSockets,
     authData |-> {[username |-> "alice"]}, claimData |-> {[code |-> "X1"]},
     recent |-> {<<Stored(1)>>}, relogin |-> TRUE,
     maxEvents |-> BusEvents, maxPublished |-> BusPublished]

LifeScn ==
    [servers |-> 1..1, serverEnv |-> NoServerEnv,
     sockets |-> 1..LifeSockets, addresses |-> {"10.0.0.1"},
     queries |-> {""}, senders |-> 1..LifeSockets,
     authData |-> {Null, [username |-> "alice"], [username |-> "bob"]},
     claimData |-> {[code |-> "X1"]},
     recent |-> {<<Stored(1)>>}, relogin |-> TRUE,
     maxEvents |-> LifeEvents, maxPublished |-> 0]

\* Two connections that log in once each, under the same username.
SharedScn ==
    [servers |-> 1..1, serverEnv |-> NoServerEnv,
     sockets |-> 1..SharedSockets, addresses |-> {"10.0.0.1"},
     queries |-> {""}, senders |-> 1..SharedSockets,
     authData |-> {[username |-> "alice"]}, claimData |-> {[code |-> "X1"]},
     recent |-> {<<Stored(1)>>}, relogin |-> FALSE,
     maxEvents |-> SharedEvents, maxPublished |-> 0]

RLScn ==
    [servers |-> 1..1, serverEnv |-> NoServerEnv, sockets |-> {},
     addresses |-> {}, queries |-> {}, senders |-> {}, authData |-> {},
     claimData |-> {}, recent |-> {}, relogin |-> TRUE, maxEvents |-> 0, maxPublished |-> 0]

Scenarios ==
    [session |-> SessionScn, burst |-> BurstScn, admit |-> AdmitScn,
     bus |-> BusScn, life |-> LifeScn, shared |-> SharedScn, rl |-> RLScn]

\* The scenario of the specification that runs.
Scn == Scenarios[scn]
\* ------------------------------------------------------------ rate limiter
\* `${userId}_${type}`
Key(userId, type) == userId \o "_" \o type

MaxLimit(type) ==
    IF type = "connection" THEN CONNECTION_RATE_LIMIT ELSE MESSAGE_RATE_LIMIT

FreshWindow(t) == [count |-> 1, resetTime |-> t + WindowMs]

\* now > limit.resetTime
WindowExpired(t, limit) == t > limit.resetTime

\* The comparison off by one: a window admits one call too many.
BudgetSpent_OffByOne(limit, type) == limit.count > MaxLimit(type)

\* A window whose budget never counts as spent.
BudgetSpent_Never(limit, type) == FALSE

\* limit.count >= maxLimit
BudgetSpent(limit, type) == limit.count >= MaxLimit(type)

\* A rejected call counted all the same.
Rejected_Counted(m, key) == [m EXCEPT ![key].count = @ + 1]

\* The rejected branch leaves the map alone.
Rejected(m, key) == m

\* checkRateLimit(userId, type) at time t on the map m: the value returned
\* and the map afterwards.
checkRateLimit(m, t, userId, type) ==
    LET key == Key(userId, type) IN
    IF key \notin DOMAIN m
    THEN [ok |-> TRUE, limits |-> m @@ (key :> FreshWindow(t))]
    ELSE IF WindowExpired(t, m[key])
    THEN [ok |-> TRUE, limits |-> [m EXCEPT ![key] = FreshWindow(t)]]
    ELSE IF BudgetSpent(m[key], type)
    THEN [ok |-> FALSE, limits |-> Rejected(m, key)]
    ELSE [ok |-> TRUE, limits |-> [m EXCEPT ![key].count = @ + 1]]

\* ------------------------------------------------------------- the servers
Servers == DOMAIN pc
SocketIds == DOMAIN sock

\* process.env.SERVER_ID || 'main'
SERVER_ID(i) == IF Truthy(Scn.serverEnv[i]) THEN Scn.serverEnv[i] ELSE "main"

\* The process runs: it was started, and has neither crashed nor exited.
Alive(i) == pc[i] \notin {"off", "crashed", "exit(0)"}

\* The handlers of the instance's sockets run: the HTTP server listens, or
\* was closed and waits for its connections to end.
Serving(i) == pc[i] \in {"listening", "closing"}

\* A server that goes on accepting connections after server.close().
Accepting_WhileClosing(state) == state \in {"listening", "closing"}

\* The HTTP server accepts new connections from server.listen(..) until
\* server.close(..).
Accepting(state) == state = "listening"

\* An update that adds one whatever the delta.
updateStats_IgnoresDelta(stats, metric, delta) ==
    IF metric \in DOMAIN stats THEN [stats EXCEPT ![metric] = @ + 1]
    ELSE stats

\* updateStats(metric, delta)
updateStats(stats, metric, delta) ==
    IF metric \in DOMAIN stats THEN [stats EXCEPT ![metric] = @ + delta]
    ELSE stats

\* No claim_code event logged yet.
NoRun == [identity |-> Undefined, start |-> 0, results |-> << >>]

NewSocket ==
    [status |-> "new", server |-> 0, handshakeUserId |-> Undefined,
     userId |-> Undefined, authenticated |-> FALSE, rooms |-> {}]

\* A socket the transport has closed: its object is dropped, its rooms left.
ClosedSocket(i) == [NewSocket EXCEPT !.status = "closed", !.server = i]

\* The handlers of lines 186-270 are registered on the sockets the connection
\* handler admitted, and on no other: a rejected socket returned before them.
HandlersRegistered(s) == sock[s].status = "open"

\* The sockets connected to instance i.
Local(i) == {t \in SocketIds : sock[t].status = "open" /\ sock[t].server = i}

\* ---------------------------------------------------------------- emitting
NoEmits == [t \in SocketIds |-> << >>]

\* socket.emit(name, payload)
SocketEmit(e, s, ev) == [e EXCEPT ![s] = Append(@, ev)]

\* A broadcast that reaches the sender too.
LocalBroadcast_ToSender(e, i, ev, except) ==
    [t \in SocketIds |-> IF t \in Local(i) THEN Append(e[t], ev) ELSE e[t]]

\* The local half of a broadcast: every socket of the instance but `except`.
LocalBroadcast(e, i, ev, except) ==
    [t \in SocketIds |-> IF t \in Local(i) \ except THEN Append(e[t], ev)
                         ELSE e[t]]

\* The adapter's half of a broadcast: the packet goes, through Redis, to the
\* adapter of every other instance that has one.
AdapterPublish(q, i, ev) ==
    IF adapterAttached[i]
    THEN [j \in Servers |->
            IF j # i /\ adapterAttached[j] /\ Alive(j)
            THEN Append(q[j], [channel |-> "socket.io", packet |-> ev])
            ELSE q[j]]
    ELSE q

\* What a handler run did: the event handled and its payload, the socket it
\* came from (0 when it came from no socket), the events emitted to each
\* socket, and whether the handler threw.
Ran(handler, s, data, emits, threw) ==
    [handler |-> handler, socket |-> s, data |-> data, emits |-> emits,
     threw |-> threw]

Names(events_) == [k \in 1..Len(events_) |-> events_[k].name]

InitialStats ==
    [total_connections |-> 0, active_connections |-> 0,
     codes_broadcasted |-> 0, messages_sent |-> 0, start_time |-> 0]

\* An exception no handler catches ends the process: its memory is gone, its
\* sockets and its Redis connections close, what was in flight to it is
\* dropped.
Crash(i) ==
    /\ pc' = [pc EXCEPT ![i] = "crashed"]
    /\ sock' = [t \in SocketIds |->
                  IF sock[t].server = i /\ sock[t].status = "open"
                  THEN ClosedSocket(i) ELSE sock[t]]
    /\ subQ' = [subQ EXCEPT ![i] = << >>]
    /\ pendingRecent' = SelectSeq(pendingRecent, LAMBDA t : sock[t].server # i)
    /\ connectionStats' = [connectionStats EXCEPT ![i] = InitialStats]
    /\ userRateLimits' = [userRateLimits EXCEPT ![i] = << >>]
    /\ redisConnected' = [redisConnected EXCEPT ![i] = FALSE]
    /\ adapterAttached' = [adapterAttached EXCEPT ![i] = FALSE]
    /\ subscribed' = [subscribed EXCEPT ![i] = FALSE]
    /\ claimRun' = [t \in SocketIds |->
                      IF sock[t].server = i THEN NoRun ELSE claimRun[t]]

\* ----------------------------------------------------------------- startup
\* await pubClient.connect(): on failure the catch of setupRedisAdapter logs
\* it, and startServer goes on to server.listen(..).
PubClientConnect(i, ok) ==
    /\ pc[i] = "connectPub"
    /\ pc' = [pc EXCEPT ![i] = IF ok THEN "connectSub" ELSE "listening"]
    /\ busFault' = [busFault EXCEPT ![i] = IF ok THEN @ ELSE "pubClient.connect"]
    /\ UNCHANGED <<clock, scn, redis, connectionStats, userRateLimits, sock,
                   subQ, pendingRecent, events, published, out, bonusRecv,
                   claimRun, admitRun, rlGhost>>

\* The flag once subClient.connect() has resolved.
ConnectedFlag_EvenOnFailure(ok) == TRUE

ConnectedFlag(ok) == ok

\* await subClient.connect(); io.adapter(createAdapter(..));
\* redisConnected = true; then subClient.subscribe(..) is called.
SubClientConnect(i, ok) ==
    /\ pc[i] = "connectSub"
    /\ pc' = [pc EXCEPT ![i] = IF ok THEN "subscribe" ELSE "listening"]
    /\ adapterAttached' = [adapterAttached EXCEPT ![i] = ok]
    /\ redisConnected' = [redisConnected EXCEPT ![i] = ConnectedFlag(ok)]
    /\ busFault' = [busFault EXCEPT ![i] = IF ok THEN @ ELSE "subClient.connect"]
    /\ UNCHANGED <<clock, scn, subscribed, connectionStats, userRateLimits,
                   sock, subQ, pendingRecent, events, published, out,
                   bonusRecv, claimRun, admitRun, rlGhost>>

\* await subClient.subscribe('bonus_codes', ..) settles: setupRedisAdapter
\* returns, and startServer goes on to server.listen(..).
SubscribeBonusCodes(i, ok) ==
    /\ pc[i] = "subscribe"
    /\ pc' = [pc EXCEPT ![i] = "listening"]
    /\ subscribed' = [subscribed EXCEPT ![i] = ok]
    /\ busFault' = [busFault EXCEPT ![i] = IF ok THEN @ ELSE "subClient.subscribe"]
    /\ UNCHANGED <<clock, scn, redisConnected, adapterAttached,
                   connectionStats, userRateLimits, sock, subQ, pendingRecent,
                   events, published, out, bonusRecv, claimRun, admitRun,
                   rlGhost>>

\* -------------------------------------------------------------- connection
WelcomeEvent(i) ==
    [name |-> "welcome", server_id |-> SERVER_ID(i),
     redis_enabled |-> redisConnected[i],
     messages_per_minute |-> MESSAGE_RATE_LIMIT,
     connections_per_minute |-> CONNECTION_RATE_LIMIT]

ErrorEvent(message) == [name |-> "error", message |-> message]

\* No connection attempt seen yet.
NoAttempts == [start |-> 0, attempts |-> 0, admitted |-> 0]

\* The connection attempts an instance saw from one address, from the first
\* of them until 60 s after it: how many there were, and how many got in.
Attempted(run, in) ==
    IF run.attempts > 0 /\ now <= run.start + WindowMs
    THEN [run EXCEPT !.attempts = @ + 1,
                     !.admitted = @ + IF in THEN 1 ELSE 0]
    ELSE [start |-> now, attempts |-> 1, admitted |-> IF in THEN 1 ELSE 0]

\* A connection let in whatever the rate check said.
Refused_Never(allowed) == FALSE

\* if (!checkRateLimit(clientIp, 'connection'))
Refused(allowed) == ~allowed

\* io.on('connection'): a socket from `address` whose handshake query holds
\* `query` as userId reaches instance i.
Connection(s, i, address, query) ==
    LET r == checkRateLimit(userRateLimits[i], now, address, "connection")
        userId == IF Truthy(query) THEN query ELSE SocketId(s)
        data == [address |-> address, userId |-> query]
    IN /\ Accepting(pc[i])
       /\ sock[s].status = "new"
       /\ \A t \in SocketIds : t < s => sock[t].status # "new"
       /\ userRateLimits' = [userRateLimits EXCEPT ![i] = r.limits]
       /\ IF Refused(r.ok)
          THEN \* socket.emit('error', ..); socket.disconnect(true); return
               /\ sock' = [sock EXCEPT ![s] = [NewSocket EXCEPT
                              !.status = "rejected", !.server = i]]
               /\ out' = Ran("connection", s, data,
                             SocketEmit(NoEmits, s,
                                 ErrorEvent("Connection rate limit exceeded")),
                             FALSE)
               /\ UNCHANGED connectionStats
          ELSE /\ sock' = [sock EXCEPT ![s] = [NewSocket EXCEPT
                              !.status = "open", !.server = i,
                              !.handshakeUserId = userId]]
               /\ connectionStats' = [connectionStats EXCEPT ![i] =
                      updateStats(updateStats(@, "total_connections", 1),
                                  "active_connections", 1)]
               /\ out' = Ran("connection", s, data,
                             SocketEmit(NoEmits, s, WelcomeEvent(i)), FALSE)
       /\ admitRun' = [admitRun EXCEPT ![i][address] =
                          Attempted(@, sock'[s].status = "open")]
       /\ UNCHANGED <<clock, scn, pc, redis, subQ, pendingRecent, events,
                      published, bonusRecv, claimRun, busFault, rlGhost>>

\* socket.on('disconnect')
Disconnect(s) ==
    LET i == sock[s].server
    IN /\ HandlersRegistered(s)
       /\ Serving(i)
       /\ events < Scn.maxEvents
       /\ events' = events + 1
       /\ sock' = [sock EXCEPT ![s] = ClosedSocket(i)]
       /\ connectionStats' = [connectionStats EXCEPT ![i] =
              updateStats(@, "active_connections", -1)]
       /\ out' = Ran("disconnect", s, Null, NoEmits, FALSE)
       /\ claimRun' = [claimRun EXCEPT ![s] = NoRun]
       /\ UNCHANGED <<clock, scn, pc, redis, userRateLimits, subQ,
                      pendingRecent, published, bonusRecv, admitRun, busFault,
                      rlGhost>>


\* A socket that fires 'disconnect' for every close signal it gets.
FiresDisconnect_EverySignal(sk) == TRUE

\* socket.io fires 'disconnect' on a socket that is connected, once: a close
\* signal for a socket that has disconnected is dropped.
FiresDisconnect(sk) == sk.status = "open"

\* The transport signals the close of a socket that has disconnected
\* already (a disconnect packet followed by the end of the connection).
CloseSignalAgain(s) ==
    LET i == sock[s].server
    IN /\ sock[s].status = "closed"
       /\ Serving(i)
       /\ events < Scn.maxEvents
       /\ events' = events + 1
       /\ IF FiresDisconnect(sock[s])
          THEN /\ connectionStats' = [connectionStats EXCEPT ![i] =
                      updateStats(@, "active_connections", -1)]
               /\ out' = Ran("disconnect", s, Null, NoEmits, FALSE)
          ELSE /\ out' = Ran("close", s, Null, NoEmits, FALSE)
               /\ UNCHANGED connectionStats
       /\ UNCHANGED <<clock, scn, pc, redis, userRateLimits, sock, subQ,
                      pendingRecent, published, bonusRecv, claimRun, admitRun,
                      busFault, rlGhost>>

\* ---------------------------------------------------------------- shutdown
\* process.on('SIGTERM'): server.close(callback) stops the HTTP server from
\* accepting connections; those it has stay.
Sigterm(i) ==
    /\ pc[i] = "listening"
    /\ pc' = [pc EXCEPT ![i] = "closing"]
    /\ out' = Ran("SIGTERM", 0, [calls |-> <<"server.close">>], NoEmits, FALSE)
    /\ UNCHANGED <<clock, scn, redis, connectionStats, userRateLimits, sock,
                   subQ, pendingRecent, events, published, bonusRecv, claimRun,
                   admitRun, busFault, rlGhost>>

\* A callback that exits at once.
CloseCallback_ExitOnly(connected) == <<"process.exit(0)">>

\* if (redisConnected) { pubClient.quit(); subClient.quit(); } process.exit(0)
CloseCallback(connected) ==
    (IF connected THEN <<"pubClient.quit", "subClient.quit">> ELSE << >>)
        \o <<"process.exit(0)">>

\* The callback of server.close(..) runs once every connection has ended.
ServerClosed(i) ==
    /\ pc[i] = "closing"
    /\ Local(i) = {}
    /\ pc' = [pc EXCEPT ![i] = "exit(0)"]
    /\ out' = Ran("close callback", 0,
                  [calls |-> CloseCallback(redisConnected[i])], NoEmits, FALSE)
    /\ subQ' = [subQ EXCEPT ![i] = << >>]
    /\ pendingRecent' = SelectSeq(pendingRecent, LAMBDA t : sock[t].server # i)
    /\ UNCHANGED <<clock, scn, redis, connectionStats, userRateLimits, sock,
                   events, published, bonusRecv, claimRun, admitRun, busFault,
                   rlGhost>>
\* ------------------------------------------------------------ authenticate
\* A check that takes any name of two characters or more.
ValidUsername_TwoCharacters(username) == Truthy(username) /\ Len(username) >= 2

\* username && username.length >= 3
ValidUsername(username) == Truthy(username) /\ Len(username) >= MinUsernameLength

\* `user_${username}`
UserRoom(username) == "user_" \o username

\* A login that leaves the rooms of the names used before.
AuthenticatedSocket_OneRoom(sk, username) ==
    [sk EXCEPT !.userId = username, !.authenticated = TRUE,
               !.rooms = {UserRoom(username)}]

\* A login that joins the room and forgets to set the flag.
AuthenticatedSocket_RoomOnly(sk, username) ==
    [sk EXCEPT !.userId = username, !.rooms = @ \cup {UserRoom(username)}]

AuthenticatedSocket(sk, username) ==
    [sk EXCEPT !.userId = username, !.authenticated = TRUE,
               !.rooms = @ \cup {UserRoom(username)}]

\* socket.on('authenticate', (data) => ..)
Authenticate(s, data) ==
    LET i == sock[s].server
        r == checkRateLimit(userRateLimits[i], now, sock[s].handshakeUserId,
                            "message")
        username == Field(data, "username")
    IN /\ HandlersRegistered(s)
       /\ Serving(i)
       /\ events < Scn.maxEvents
       /\ events' = events + 1
       /\ IF ~r.ok
          THEN /\ out' = Ran("authenticate", s, data,
                             SocketEmit(NoEmits, s,
                                 ErrorEvent("Message rate limit exceeded")),
                             FALSE)
               /\ userRateLimits' = [userRateLimits EXCEPT ![i] = r.limits]
               /\ UNCHANGED <<pc, redis, connectionStats, sock, subQ,
                              pendingRecent, claimRun>>
          ELSE IF ~IsObject(data)
          THEN \* const { username, token } = data throws a TypeError
               /\ out' = Ran("authenticate", s, data, NoEmits, TRUE)
               /\ Crash(i)
          ELSE IF ValidUsername(username)
          THEN /\ userRateLimits' = [userRateLimits EXCEPT ![i] = r.limits]
               /\ sock' = [sock EXCEPT ![s] = AuthenticatedSocket(@, username)]
               /\ out' = Ran("authenticate", s, data,
                             SocketEmit(NoEmits, s,
                                 [name |-> "authenticated",
                                  username |-> username,
                                  server_id |-> SERVER_ID(i)]),
                             FALSE)
               /\ pendingRecent' = IF redisConnected[i]
                                   THEN Append(pendingRecent, s)
                                   ELSE pendingRecent
               /\ UNCHANGED <<pc, redis, connectionStats, subQ, claimRun>>
          ELSE /\ userRateLimits' = [userRateLimits EXCEPT ![i] = r.limits]
               /\ out' = Ran("authenticate", s, data,
                             SocketEmit(NoEmits, s,
                                 [name |-> "auth_error",
                                  message |-> "Invalid username"]),
                             FALSE)
               /\ UNCHANGED <<pc, redis, connectionStats, sock, subQ,
                              pendingRecent, claimRun>>
       /\ UNCHANGED <<clock, scn, published, bonusRecv, admitRun, busFault,
                      rlGhost>>

\* -------------------------------------------------------------- claim_code
\* const { code, auto_claim = false } = data
AutoClaim(data) ==
    IF "auto_claim" \in DOMAIN data THEN data.auto_claim ELSE FALSE

ClaimReceived(sk, data) ==
    [name |-> "claim_received", code |-> Field(data, "code"),
     user |-> sk.userId, auto_claim |-> AutoClaim(data)]

CodeClaimed(sk, data) ==
    [name |-> "code_claimed", code |-> Field(data, "code"),
     claimed_by |-> sk.userId]

\* The claim_code events a socket sent with an object payload under one
\* identity, from the first of them until 60 s after it: what each yielded.
Logged(run, sk, outcome) ==
    IF run.identity = sk.userId /\ now <= run.start + WindowMs
    THEN [run EXCEPT !.results = Append(@, outcome)]
    ELSE [identity |-> sk.userId, start |-> now, results |-> <<outcome>>]

\* A handler that takes the claims of everybody.
AuthenticationRequired_OfNobody(sk) == FALSE

\* if (!socket.authenticated)
AuthenticationRequired(sk) == ~sk.authenticated

\* socket.on('claim_code', (data) => ..)
ClaimCode(s, data) ==
    LET i == sock[s].server
        r == checkRateLimit(userRateLimits[i], now, sock[s].userId, "message")
        claimed == CodeClaimed(sock[s], data)
    IN /\ HandlersRegistered(s)
       /\ Serving(i)
       /\ events < Scn.maxEvents
       /\ events' = events + 1
       /\ IF AuthenticationRequired(sock[s])
          THEN /\ out' = Ran("claim_code", s, data,
                             SocketEmit(NoEmits, s,
                                 ErrorEvent("Authentication required")),
                             FALSE)
               /\ UNCHANGED <<pc, redis, userRateLimits, connectionStats,
                              sock, subQ, pendingRecent, claimRun>>
          ELSE IF ~r.ok
                  THEN /\ userRateLimits' = [userRateLimits EXCEPT ![i] = r.limits]
                       /\ out' = Ran("claim_code", s, data,
                                     SocketEmit(NoEmits, s,
                                         ErrorEvent("Rate limit exceeded - slow down!")),
                                     FALSE)
                       /\ claimRun' = IF IsObject(data)
                                      THEN [claimRun EXCEPT ![s] =
                                               Logged(@, sock[s], "error")]
                                      ELSE claimRun
                       /\ UNCHANGED <<pc, redis, connectionStats, sock, subQ,
                                      pendingRecent>>
                  ELSE IF ~IsObject(data)
                  THEN \* const { code, auto_claim = false } = data throws
                       /\ out' = Ran("claim_code", s, data, NoEmits, TRUE)
                       /\ Crash(i)
                  ELSE /\ userRateLimits' = [userRateLimits EXCEPT ![i] = r.limits]
                       /\ out' = Ran("claim_code", s, data,
                                     LocalBroadcast(
                                         SocketEmit(NoEmits, s,
                                             ClaimReceived(sock[s], data)),
                                         i, claimed, {s}),
                                     FALSE)
                       /\ subQ' = AdapterPublish(subQ, i, claimed)
                       /\ connectionStats' = [connectionStats EXCEPT ![i] =
                              updateStats(@, "messages_sent", 1)]
                       /\ claimRun' = [claimRun EXCEPT ![s] =
                              Logged(@, sock[s], "claim_received")]
                       /\ UNCHANGED <<pc, redis, sock, pendingRecent>>
       /\ UNCHANGED <<clock, scn, published, bonusRecv, admitRun, busFault,
                      rlGhost>>

\* --------------------------------------------------------- sendRecentCodes
\* A read that returns the whole list.
LRange_All(list, start, stop) == list

\* lRange(key, start, stop): the elements start..stop, counted from 0.
LRange(list, start, stop) ==
    SubSeq(list, start + 1, IF stop + 1 < Len(list) THEN stop + 1 ELSE Len(list))

\* The first socket whose lRange is outstanding gets its answer: the read
\* fails, or returns the first ten elements of the list.
SendRecentCodesReply(ok, list) ==
    LET s == Head(pendingRecent)
        i == sock[s].server
        recentCodes == LRange(list, 0, 9)
        parsed == [k \in 1..Len(recentCodes) |-> JSONparse(recentCodes[k])]
        allParse == \A k \in 1..Len(parsed) : parsed[k].ok
        sent == ok /\ Len(recentCodes) > 0 /\ allParse /\ sock[s].status = "open"
    IN /\ pendingRecent # << >>
       /\ Alive(i)
       /\ pendingRecent' = Tail(pendingRecent)
       /\ out' = Ran("sendRecentCodes", s, [ok |-> ok, list |-> list],
                     IF sent
                     THEN SocketEmit(NoEmits, s,
                              [name |-> "recent_codes",
                               codes |-> [k \in 1..Len(parsed) |-> parsed[k].value],
                               count |-> Len(recentCodes)])
                     ELSE NoEmits,
                     FALSE)
       /\ UNCHANGED <<clock, scn, pc, redis, connectionStats, userRateLimits,
                      sock, subQ, events, published, bonusRecv, claimRun,
                      admitRun, busFault, rlGhost>>

\* ----------------------------------------------------------------- the bus
\* The backend publishes a message on the channel bonus_codes: Redis hands it
\* to every subscriber.
BackendPublish(message) ==
    LET subs == {i \in Servers : subscribed[i] /\ Alive(i)}
    IN /\ Len(published) < Scn.maxPublished
       /\ published' = Append(published,
                              [message |-> message, subscribers |-> subs])
       /\ subQ' = [i \in Servers |->
                     IF i \in subs
                     THEN Append(subQ[i], [channel |-> "bonus_codes",
                                           message |-> message])
                     ELSE subQ[i]]
       /\ UNCHANGED <<clock, scn, pc, redis, connectionStats, userRateLimits,
                      sock, pendingRecent, events, out, bonusRecv, claimRun,
                      admitRun, busFault, rlGhost>>

\* { ...codeData, server_id: process.env.SERVER_ID || 'main' }
BonusCode(i, codeData) ==
    ("name" :> "bonus_code") @@ ("server_id" :> SERVER_ID(i)) @@ codeData

Received(log, emits) ==
    [t \in SocketIds |->
        log[t] \o SelectSeq(emits[t], LAMBDA ev : ev.name = "bonus_code")]

\* io.emit(name, payload): the instance's own sockets, and the adapter.
IoEmitLocal(i, ev) == LocalBroadcast(NoEmits, i, ev, {})

\* The listener of subClient.subscribe('bonus_codes', ..) on instance i.
OnBonusCodes(i) ==
    LET m == Head(subQ[i])
        parsed == JSONparse(m.message)
        ev == BonusCode(i, parsed.value)
        rest == [subQ EXCEPT ![i] = Tail(@)]
    IN /\ Alive(i)
       /\ subQ[i] # << >>
       /\ m.channel = "bonus_codes"
       /\ IF parsed.ok
          THEN /\ out' = Ran("bonus_codes", 0, m.message, IoEmitLocal(i, ev),
                             FALSE)
               /\ subQ' = AdapterPublish(rest, i, ev)
               /\ connectionStats' = [connectionStats EXCEPT ![i] =
                      updateStats(@, "codes_broadcasted", 1)]
               /\ bonusRecv' = Received(bonusRecv, IoEmitLocal(i, ev))
          ELSE \* JSON.parse threw; the listener's catch logs it
               /\ out' = Ran("bonus_codes", 0, m.message, NoEmits, FALSE)
               /\ subQ' = rest
               /\ UNCHANGED <<connectionStats, bonusRecv>>
       /\ UNCHANGED <<clock, scn, pc, redis, userRateLimits, sock,
                      pendingRecent, events, published, claimRun, admitRun,
                      busFault, rlGhost>>

\* The adapter of instance i receives a packet another instance broadcast,
\* and hands it to its own sockets.
OnAdapterMessage(i) ==
    LET m == Head(subQ[i])
        emits == LocalBroadcast(NoEmits, i, m.packet, {})
    IN /\ Alive(i)
       /\ subQ[i] # << >>
       /\ m.channel = "socket.io"
       /\ subQ' = [subQ EXCEPT ![i] = Tail(@)]
       /\ out' = Ran("adapter", 0, m.packet, emits, FALSE)
       /\ bonusRecv' = Received(bonusRecv, emits)
       /\ UNCHANGED <<clock, scn, pc, redis, connectionStats, userRateLimits,
                      sock, pendingRecent, events, published, claimRun,
                      admitRun, busFault, rlGhost>>

\* -------------------------------------------------------------------- Init
\* The state once the script has been loaded in every instance: startServer()
\* has been called and awaits pubClient.connect().
InitWith(name, started) ==
    LET scenario == Scenarios[name] IN
    /\ now = 0
    /\ ticks = 0
    /\ scn = name
    /\ pc = [i \in scenario.servers |-> IF started THEN "connectPub" ELSE "off"]
    /\ redisConnected = [i \in scenario.servers |-> FALSE]
    /\ adapterAttached = [i \in scenario.servers |-> FALSE]
    /\ subscribed = [i \in scenario.servers |-> FALSE]
    /\ connectionStats = [i \in scenario.servers |-> InitialStats]
    /\ userRateLimits = [i \in scenario.servers |-> << >>]
    /\ sock = [s \in scenario.sockets |-> NewSocket]
    /\ subQ = [i \in scenario.servers |-> << >>]
    /\ pendingRecent = << >>
    /\ events = 0
    /\ published = << >>
    /\ out = Ran("none", 0, Null, [s \in scenario.sockets |-> << >>], FALSE)
    /\ bonusRecv = [s \in scenario.sockets |-> << >>]
    /\ claimRun = [s \in scenario.sockets |-> NoRun]
    /\ admitRun = [i \in scenario.servers |->
                     [a \in scenario.addresses |-> NoAttempts]]
    /\ busFault = [i \in scenario.servers |-> "none"]
    /\ rlLog = << >>
    /\ noise = 0

NoProbe == [userId |-> Undefined, type |-> Undefined]

Init == InitWith("session", TRUE) /\ probe = NoProbe /\ other = NoProbe
InitBurst == InitWith("burst", TRUE) /\ probe = NoProbe /\ other = NoProbe
InitAdmit == InitWith("admit", TRUE) /\ probe = NoProbe /\ other = NoProbe
InitBus == InitWith("bus", TRUE) /\ probe = NoProbe /\ other = NoProbe
InitLife == InitWith("life", TRUE) /\ probe = NoProbe /\ other = NoProbe
InitShared == InitWith("shared", TRUE) /\ probe = NoProbe /\ other = NoProbe

\* -------------------------------------------------------------------- Next
Startup ==
    \E i \in Servers, ok \in BOOLEAN :
        \/ PubClientConnect(i, ok)
        \/ SubClientConnect(i, ok)
        \/ SubscribeBonusCodes(i, ok)

Serve ==
    \/ Startup
    \/ \E s \in SocketIds, i \in Servers, a \in Scn.addresses,
          q \in Scn.queries : Connection(s, i, a, q)
    \/ \E s \in Scn.senders, data \in Scn.authData :
          /\ Scn.relogin \/ ~sock[s].authenticated
          /\ Authenticate(s, data)
    \/ \E s \in Scn.senders, data \in Scn.claimData : ClaimCode(s, data)
    \/ \E s \in Scn.senders : Disconnect(s)
    \/ \E ok \in BOOLEAN, list \in Scn.recent : SendRecentCodesReply(ok, list)

\* What the backend may publish next: an event with a code and its own id,
\* or text that is no JSON.
Publishable ==
    {JSONstringify([code |-> "B1", id |-> Len(published) + 1]), Garbage}

Next ==
    \/ Tick
    \/ Serve

NextBus ==
    \/ Serve
    \/ \E message \in Publishable : BackendPublish(message)
    \/ \E i \in Servers : OnBonusCodes(i)
    \/ \E i \in Servers : OnAdapterMessage(i)

\* A session from startup to exit: close signals that come twice, and the
\* graceful shutdown.
NextLife ==
    \/ Serve
    \/ \E s \in SocketIds : CloseSignalAgain(s)
    \/ \E i \in Servers : Sigterm(i)
    \/ \E i \in Servers : ServerClosed(i)

Spec == Init /\ [][Serve]_vars
SpecLife == InitLife /\ [][NextLife]_vars
SpecShared == InitShared /\ [][Serve]_vars
SpecBurst == InitBurst /\ [][Next]_vars
SpecAdmit == InitAdmit /\ [][Next]_vars
SpecBus == InitBus /\ [][NextBus]_vars

\* ------------------------------------------- the rate limiter on its own
\* One key is probed, and its calls are logged; calls on one other key,
\* which shares its userId or its type, go on beside it. The limiter is that
\* of instance 1, which serves nothing else here.
RLIds == {"10.0.0.1", "alice"}
RLTypes == {"connection", "message"}

RateLimitCall(userId, type) ==
    LET r == checkRateLimit(userRateLimits[1], now, userId, type)
        probed == userId = probe.userId /\ type = probe.type
        aside == userId = other.userId /\ type = other.type
    IN /\ \/ probed /\ Len(rlLog) < MaxCalls
          \/ aside /\ noise < MaxNoise
       /\ userRateLimits' = [userRateLimits EXCEPT ![1] = r.limits]
       /\ rlLog' = IF probed
                   THEN Append(rlLog, [time |-> now, ok |-> r.ok,
                                       changed |-> r.limits # userRateLimits[1]])
                   ELSE rlLog
       /\ noise' = IF probed THEN noise ELSE noise + 1
       /\ UNCHANGED <<clock, scn, pc, redis, connectionStats, sock, subQ,
                      pendingRecent, ghost, probe, other>>

InitRL ==
    /\ InitWith("rl", FALSE)
    /\ probe \in [userId : RLIds, type : RLTypes]
    /\ other \in {k \in [userId : RLIds, type : RLTypes] :
                     (k.userId = probe.userId) # (k.type = probe.type)}

NextRL ==
    \/ Tick
    \/ \E u \in RLIds, c \in RLTypes : RateLimitCall(u, c)

SpecRL == InitRL /\ [][NextRL]_vars

\* ------------------------------------------------ claims: rate limiter
ProbeLimit == MaxLimit(probe.type)

\* The reset time of the window the probed key's first call opens.
FirstReset == rlLog[1].time + WindowMs

\* The logged calls made after the first window's reset time has passed.
LateCalls == {i \in 1..Len(rlLog) : rlLog[i].time > FirstReset}

\* The first of them: the call that opens the next window.
FirstLate == CHOOSE j \in LateCalls : \A i \in LateCalls : j <= i

\* C2: from no stored window, the first L calls inside one window return
\* true, the (L+1)th inside that window returns false, and the first call
\* after the window's reset time has passed returns true again.
C2_WindowBudget ==
    rlLog # << >> =>
        /\ \A i \in 1..Len(rlLog) :
              rlLog[i].time <= FirstReset =>
                  /\ i <= ProbeLimit => rlLog[i].ok
                  /\ i = ProbeLimit + 1 => ~rlLog[i].ok
        /\ LateCalls # {} => rlLog[FirstLate].ok

C2_Witness ==
    /\ probe.type = "message"
    /\ Len(rlLog) = ProbeLimit + 2
    /\ rlLog[ProbeLimit + 1].time <= FirstReset
    /\ ~rlLog[ProbeLimit + 1].ok
    /\ rlLog[ProbeLimit + 2].time > FirstReset
    /\ rlLog[ProbeLimit + 2].ok

\* Some call of the first window was rejected.
RejectedInFirstWindow ==
    \E i \in 1..Len(rlLog) : rlLog[i].time <= FirstReset /\ ~rlLog[i].ok

\* The calls of the window that FirstLate opens.
SecondWindow ==
    {i \in LateCalls : rlLog[i].time <= rlLog[FirstLate].time + WindowMs}

FullBudgetAfterRejections ==
    (rlLog # << >> /\ RejectedInFirstWindow /\ LateCalls # {}) =>
        \A i \in SecondWindow : i - FirstLate + 1 <= ProbeLimit => rlLog[i].ok

\* C3: a call that returns false leaves the stored windows unchanged, and
\* after rejected calls the next window grants the full budget of L accepted
\* calls.
C3_RejectedCallsCostNothing ==
    /\ \A i \in 1..Len(rlLog) : ~rlLog[i].ok => ~rlLog[i].changed
    /\ FullBudgetAfterRejections

C3_Witness ==
    /\ rlLog # << >>
    /\ noise > 0
    /\ RejectedInFirstWindow
    /\ LateCalls # {}
    /\ Cardinality({i \in SecondWindow : rlLog[i].ok}) = ProbeLimit


\* ------------------------------------------------ claims: the bonus codes
\* The bonus_code events socket s received for the n-th published message.
Copies(s, n) == {k \in 1..Len(bonusRecv[s]) : bonusRecv[s][k].id = n}

\* C1: for every event published once on the channel bonus_codes, with any
\* number of instances subscribed and attached to the adapter, each connected
\* client receives the corresponding bonus_code event at most once.
C1_AtMostOncePerClient ==
    \A s \in SocketIds : \A n \in 1..Len(published) :
        Cardinality(Copies(s, n)) <= 1

\* C9: with two instances of distinct server identifiers, every bonus_code a
\* client receives carries the server_id of the instance that client is
\* connected to.
C9_OwnServerId ==
    \A s \in SocketIds : \A k \in 1..Len(bonusRecv[s]) :
        bonusRecv[s][k].server_id = SERVER_ID(sock[s].server)

\* ------------------------------------------------ claims: the claim budget
\* C4: of 11 claim_code events a connection sends under one identity within
\* one 60-second window, whatever handshake userId it connected with and
\* whatever authenticate events preceded, the first 10 each yield
\* claim_received and the 11th yields the rate-limit error.
C4_TenClaimsThenError ==
    \A s \in SocketIds :
        \A k \in 1..Len(claimRun[s].results) :
            /\ k <= MESSAGE_RATE_LIMIT =>
                  claimRun[s].results[k] = "claim_received"
            /\ k = MESSAGE_RATE_LIMIT + 1 => claimRun[s].results[k] = "error"

\* ------------------------------------------------ claims: the handlers
\* The step is the handling of one client event of this name.
Handles(name) == events' = events + 1 /\ out'.handler = name

OnlyTo(emits, s, sent) ==
    \A t \in DOMAIN emits : emits[t] = IF t = s THEN sent ELSE << >>

UnauthenticatedClaim ==
    /\ Handles("claim_code")
    /\ ~sock[out'.socket].authenticated

\* C5: a claim_code event from a connection that has not authenticated
\* yields the error 'Authentication required' to that connection and nothing
\* else to anybody, and changes no state: no broadcast, no statistic, no
\* rate-limit window, and the connection stays unauthenticated.
C5_UnauthenticatedClaimRejected ==
    [][UnauthenticatedClaim =>
          /\ OnlyTo(out'.emits, out'.socket,
                    <<[name |-> "error", message |-> "Authentication required"]>>)
          /\ ~out'.threw
          /\ connectionStats' = connectionStats
          /\ userRateLimits' = userRateLimits
          /\ subQ' = subQ
          /\ sock' = sock
          /\ pc' = pc]_vars

C5_Witness ==
    /\ out.handler = "claim_code"
    /\ sock[out.socket].status = "open"
    /\ ~sock[out.socket].authenticated
    /\ Names(out.emits[out.socket]) = <<"error">>
    /\ \E t \in SocketIds \ {out.socket} : sock[t].status = "open"

\* The server counted the claim: it passed every check of the handler.
AcceptedClaim ==
    /\ Handles("claim_code")
    /\ connectionStats'[sock[out'.socket].server].messages_sent
         = connectionStats[sock[out'.socket].server].messages_sent + 1

\* C6: when a claim_code is accepted, the sender receives exactly one
\* claim_received and no code_claimed, and every other connection of the
\* instance receives exactly one code_claimed, with the code of the claim and
\* claimed_by the sender's current identity; nobody else receives anything.
C6_AcceptedClaimFanout ==
    [][AcceptedClaim =>
          LET s == out'.socket IN
          /\ Names(out'.emits[s]) = <<"claim_received">>
          /\ out'.emits[s][1].code = out'.data.code
          /\ \A t \in SocketIds \ {s} :
                out'.emits[t] =
                    IF sock[t].status = "open" /\ sock[t].server = sock[s].server
                    THEN <<[name |-> "code_claimed", code |-> out'.data.code,
                            claimed_by |-> sock[s].userId]>>
                    ELSE << >>]_vars

C6_Witness ==
    /\ out.handler = "claim_code"
    /\ Names(out.emits[out.socket]) = <<"claim_received">>
    /\ Cardinality({t \in SocketIds \ {out.socket} :
                       Names(out.emits[t]) = <<"code_claimed">>}) > 1

\* An authenticate event with a username of fewer than 3 characters, on a
\* socket that is authenticated and whose message budget is not spent.
ShortNameAfterLogin ==
    /\ Handles("authenticate")
    /\ IsObject(out'.data)
    /\ Len(out'.data.username) < 3
    /\ sock[out'.socket].authenticated
    /\ checkRateLimit(userRateLimits[sock[out'.socket].server], now,
                      sock[out'.socket].handshakeUserId, "message").ok

\* C7: on an authenticated connection, an authenticate event with a username
\* shorter than 3 characters yields auth_error to that connection, and
\* leaves it authenticated under its identity with its rooms unchanged.
C7_FailedLoginKeepsSession ==
    [][ShortNameAfterLogin =>
          /\ OnlyTo(out'.emits, out'.socket,
                    <<[name |-> "auth_error", message |-> "Invalid username"]>>)
          /\ sock'[out'.socket].authenticated
          /\ sock'[out'.socket].userId = sock[out'.socket].userId
          /\ sock'[out'.socket].rooms = sock[out'.socket].rooms
          /\ sock'[out'.socket].status = "open"]_vars

C7_Witness ==
    /\ out.handler = "authenticate"
    /\ out.data = [username |-> "ab"]
    /\ Names(out.emits[out.socket]) = <<"auth_error">>
    /\ sock[out.socket].authenticated
    /\ sock[out.socket].userId = "alice"
    /\ sock[out.socket].rooms = {"user_alice"}

\* ------------------------------------------------ claims: degraded mode
\* Connecting one of the two Redis clients failed in the setup of instance i.
ConnectFailed(i) == busFault[i] \in {"pubClient.connect", "subClient.connect"}

\* The last handler run was a claim_code of instance i that the sender was
\* told was received.
ClaimReceivedOn(i) ==
    /\ out.handler = "claim_code"
    /\ sock[out.socket].server = i
    /\ Names(out.emits[out.socket]) = <<"claim_received">>

\* C8: if connecting to the bus fails during setup, the health flag is false
\* from then on (and so is the redis_enabled of every welcome), the server
\* still starts to listen, and an accepted claim_code still delivers
\* code_claimed to every other connection of the instance.
C8_DegradedMode ==
    \A i \in Servers :
        ConnectFailed(i) =>
            /\ ~redisConnected[i]
            /\ pc[i] \in {"listening", "crashed"}
            /\ (out.handler = "connection" /\ sock[out.socket].server = i) =>
                  \A k \in 1..Len(out.emits[out.socket]) :
                      out.emits[out.socket][k].name = "welcome" =>
                          ~out.emits[out.socket][k].redis_enabled
            /\ ClaimReceivedOn(i) =>
                  \A t \in Local(i) \ {out.socket} :
                      out.emits[t] = <<[name |-> "code_claimed",
                                        code |-> out.data.code,
                                        claimed_by |-> sock[out.socket].userId]>>

C8_Witness ==
    /\ ConnectFailed(1)
    /\ pc[1] = "listening"
    /\ ClaimReceivedOn(1)
    /\ Local(1) \ {out.socket} # {}

\* ------------------------------------------------ claims: admission
RejectedSockets == {s \in SocketIds : sock[s].status = "rejected"}

\* The sockets instance i let in, connected or gone since.
AdmittedSockets(i) ==
    {s \in SocketIds : sock[s].server = i /\ sock[s].status \in {"open", "closed"}}

\* C10: per remote address at most 5 connections are admitted per 60-second
\* window, and only the first 5 attempts of the window; a rejected connection
\* receives an error and no welcome, then or later, is disconnected, has none
\* of its events handled, and is counted neither in total_connections nor in
\* active_connections.
C10_Admission ==
    /\ \A i \in Servers : \A a \in Scn.addresses :
          /\ admitRun[i][a].admitted <= CONNECTION_RATE_LIMIT
          /\ (out.handler = "connection" /\ out.data.address = a
                 /\ sock[out.socket].server = i
                 /\ sock[out.socket].status = "open") =>
                admitRun[i][a].attempts <= CONNECTION_RATE_LIMIT
    /\ \A s \in RejectedSockets :
          IF out.handler = "connection" /\ out.socket = s
          THEN out.emits[s] =
                  <<[name |-> "error",
                     message |-> "Connection rate limit exceeded"]>>
          ELSE /\ out.emits[s] = << >>
               /\ out.socket # s
    /\ \A i \in Servers :
          pc[i] = "listening" =>
              /\ connectionStats[i].total_connections =
                    Cardinality(AdmittedSockets(i))
              /\ connectionStats[i].active_connections = Cardinality(Local(i))

C10_Witness ==
    /\ out.handler = "connection"
    /\ out.socket \in RejectedSockets
    /\ admitRun[1]["10.0.0.1"].attempts = CONNECTION_RATE_LIMIT + 1
    /\ admitRun[1]["10.0.0.1"].admitted = CONNECTION_RATE_LIMIT
    /\ Cardinality(Local(1)) = CONNECTION_RATE_LIMIT
    /\ connectionStats[1].total_connections = CONNECTION_RATE_LIMIT
    /\ connectionStats[1].active_connections = CONNECTION_RATE_LIMIT

\* ------------------------------------------------ claims: rooms and counters
\* C11: in every reachable state, every connection that is a member of a
\* per-identity room has authenticated = true.
C11_RoomsOnlyAfterLogin ==
    \A s \in SocketIds : sock[s].rooms # {} => sock[s].authenticated

C11_Witness ==
    /\ \E s \in SocketIds : sock[s].rooms = {"user_alice"} /\ sock[s].authenticated
    /\ \E s \in SocketIds :
          sock[s].status = "open" /\ sock[s].rooms = {} /\ ~sock[s].authenticated

\* C12: after any interleaving of connects, rejected connects, events and
\* disconnects, active_connections of a running instance is the number of
\* sockets it admitted that have not disconnected, and is never negative.
C12_ActiveConnections ==
    \A i \in Servers :
        Alive(i) =>
            /\ connectionStats[i].active_connections =
                  Cardinality({s \in SocketIds :
                                  sock[s].server = i /\ sock[s].status = "open"})
            /\ connectionStats[i].active_connections >= 0

C12_Witness ==
    /\ RejectedSockets # {}
    /\ \E s \in SocketIds : sock[s].status = "closed"
    /\ connectionStats[1].active_connections = CONNECTION_RATE_LIMIT - 1
    /\ connectionStats[1].total_connections = CONNECTION_RATE_LIMIT

\* ------------------------------------------------ claims: the end of a session
\* Everything the program keeps, in memory and in flight.
program == <<pc, redis, connectionStats, userRateLimits, sock, subQ, pendingRecent>>

FirstCloseSignal ==
    /\ events' = events + 1
    /\ out'.handler = "disconnect"
    /\ sock[out'.socket].status = "open"

SecondCloseSignal ==
    /\ events' = events + 1
    /\ out'.handler \in {"disconnect", "close"}
    /\ sock[out'.socket].status = "closed"

Exits(i) == pc[i] # "exit(0)" /\ pc'[i] = "exit(0)"

ShuttingDown(i) == pc[i] \in {"closing", "exit(0)"}

\* C17: after the shutdown signal the listener is closed first, then the
\* bus connections are quit (when the flag says they were connected), then
\* the process exits with status 0; no connection is admitted once shutdown
\* has begun, and by the exit every connection has disconnected and its
\* disconnect has been counted.
C17_ShutdownOrder ==
    [][\A i \in Servers :
          /\ Exits(i) =>
                /\ pc[i] = "closing"
                /\ out'.data.calls =
                      IF redisConnected[i]
                      THEN <<"pubClient.quit", "subClient.quit", "process.exit(0)">>
                      ELSE <<"process.exit(0)">>
                /\ \A s \in SocketIds : sock[s].status # "open"
                /\ connectionStats[i].active_connections = 0
          /\ ShuttingDown(i) =>
                /\ ShuttingDown(i)' \/ pc'[i] = "crashed"
                /\ \A s \in SocketIds :
                      sock[s].status = "new" => sock'[s].status = "new"]_vars

C17_Witness ==
    /\ pc[1] = "exit(0)"
    /\ redisConnected[1]
    /\ out.data.calls = <<"pubClient.quit", "subClient.quit", "process.exit(0)">>
    /\ \E s \in SocketIds : sock[s].status = "closed"
    /\ \E s \in SocketIds : sock[s].status = "new"
    /\ connectionStats[1].total_connections = 1

\* ------------------------------------------------ claims: a second login
Succeeds(s) ==
    /\ Handles("authenticate")
    /\ out'.socket = s
    /\ Names(out'.emits[s]) = <<"authenticated">>

ClaimAcceptedFrom(s) == AcceptedClaim /\ out'.socket = s

\* C20: a successful authenticate replaces the identity by the new name and
\* adds its room to those joined before; no other step of a connected socket
\* changes its identity or its rooms or clears its flag; and an accepted
\* claim_code is attributed to the latest name and counted in that name's
\* message window and in no other.
C20_SecondLogin ==
    [][\A s \in SocketIds :
          IF Succeeds(s)
          THEN /\ sock'[s].userId = out'.data.username
               /\ sock'[s].authenticated
               /\ sock'[s].rooms = sock[s].rooms \cup {"user_" \o out'.data.username}
          ELSE /\ (sock[s].status = "open" /\ sock'[s].status = "open") =>
                     /\ sock'[s].userId = sock[s].userId
                     /\ sock'[s].rooms = sock[s].rooms
                     /\ sock[s].authenticated => sock'[s].authenticated
               /\ ClaimAcceptedFrom(s) =>
                     LET i == sock[s].server
                         key == sock[s].userId \o "_message"
                     IN /\ out'.emits[s][1].user = sock[s].userId
                        /\ key \in DOMAIN userRateLimits'[i]
                        /\ userRateLimits'[i][key].count =
                              IF key \in DOMAIN userRateLimits[i]
                              THEN userRateLimits[i][key].count + 1 ELSE 1
                        /\ \A k \in DOMAIN userRateLimits'[i] \ {key} :
                              /\ k \in DOMAIN userRateLimits[i]
                              /\ userRateLimits'[i][k] = userRateLimits[i][k]]_vars

C20_Witness ==
    /\ out.handler = "claim_code"
    /\ Names(out.emits[out.socket]) = <<"claim_received">>
    /\ out.emits[out.socket][1].user = "bob"
    /\ sock[out.socket].userId = "bob"
    /\ sock[out.socket].rooms = {"user_alice", "user_bob"}
    /\ "bob_message" \in DOMAIN userRateLimits[1]
    /\ "alice_message" \notin DOMAIN userRateLimits[1]

\* ------------------------------------------------ claims: failures
\* C14: whenever bus setup fails at any step (publisher connect, subscriber
\* connect, or subscribing to bonus_codes), the health flag that welcome,
\* /health and /stats report is false.
C14_AnySetupFailureDegrades ==
    \A i \in Servers : busFault[i] # "none" => ~redisConnected[i]

\* C15: an authenticate or claim_code event whose payload is null or missing
\* is ignored or answered with an error event to the sender; the handler
\* never throws.
C15_MalformedPayloadHandled ==
    (out.handler \in {"authenticate", "claim_code"} /\ ~IsObject(out.data)) =>
        /\ ~out.threw
        /\ pc[sock[out.socket].server] # "crashed"
        /\ \A t \in SocketIds :
              /\ t # out.socket => out.emits[t] = << >>
              /\ \A k \in 1..Len(out.emits[t]) :
                    out.emits[t][k].name \in {"error", "auth_error"}

\* ------------------------------------------------ claims: the replay
\* The step is the answer to the lRange of a sendRecentCodes.
Replies ==
    /\ pendingRecent # << >>
    /\ pendingRecent' = Tail(pendingRecent)
    /\ out'.handler = "sendRecentCodes"

\* The first ten elements at most.
FirstTen(list) == IF Len(list) < 10 THEN Len(list) ELSE 10

\* C18: a successful authenticate starts a replay of recent_codes exactly
\* when the health flag is true, and nothing else starts one; a replay that
\* is sent goes to the authenticating connection only, with the first 10
\* stored items at most, in stored order, and count their number; a failed
\* fetch sends nothing; and the answer leaves every connection as it was.
C18_RecentCodesReplay ==
    [][/\ \A s \in SocketIds :
             Succeeds(s) =>
                 pendingRecent' = IF redisConnected[sock[s].server]
                                  THEN Append(pendingRecent, s)
                                  ELSE pendingRecent
       /\ Len(pendingRecent') > Len(pendingRecent) =>
             \E s \in SocketIds : Succeeds(s)
       /\ Replies =>
             LET s == Head(pendingRecent)
                 list == out'.data.list
                 sent == out'.emits[s]
             IN /\ out'.socket = s
                /\ \A t \in SocketIds \ {s} : out'.emits[t] = << >>
                /\ Len(sent) <= 1
                /\ ~out'.data.ok => sent = << >>
                /\ sent # << >> =>
                      /\ sent[1].name = "recent_codes"
                      /\ Len(sent[1].codes) = FirstTen(list)
                      /\ \A k \in 1..Len(sent[1].codes) :
                            sent[1].codes[k] = list[k].value
                      /\ sent[1].count = Len(sent[1].codes)
                /\ sock' = sock]_vars

C18_Witness ==
    /\ out.handler = "sendRecentCodes"
    /\ out.data.ok
    /\ Len(out.data.list) > 10
    /\ Names(out.emits[out.socket]) = <<"recent_codes">>
    /\ out.emits[out.socket][1].count = 10
    /\ sock[out.socket].authenticated
    /\ \E t \in SocketIds \ {out.socket} : sock[t].status = "open"

\* ------------------------------------------------ claims: stored windows
\* The ids a window can be stored under: addresses, handshake userIds,
\* socket ids, usernames.
WindowIds ==
    RLIds \cup Scn.addresses \cup Scn.queries
          \cup {SocketId(s) : s \in SocketIds}
          \cup {Field(d, "username") : d \in {a \in Scn.authData : IsObject(a)}}

\* The category a stored key was written under.
CategoryOf(key) ==
    CHOOSE type \in RLTypes : \E u \in WindowIds : key = Key(u, type)

\* C19: every stored rate window has a count of at least 1 and at most the
\* limit of its category, 5 for connection keys and 10 for message keys.
C19_WindowCountInRange ==
    \A i \in Servers : \A key \in DOMAIN userRateLimits[i] :
        /\ \E u \in WindowIds, type \in RLTypes : key = Key(u, type)
        /\ 1 <= userRateLimits[i][key].count
        /\ userRateLimits[i][key].count <= MaxLimit(CategoryOf(key))

\* A full window is stored, a call on it was refused, and the clock went on.
C19_Witness ==
    /\ Key(probe.userId, probe.type) \in DOMAIN userRateLimits[1]
    /\ userRateLimits[1][Key(probe.userId, probe.type)].count = MaxLimit(probe.type)
    /\ \E k \in 1..Len(rlLog) : ~rlLog[k].ok
    /\ DOMAIN userRateLimits[1] # {Key(probe.userId, probe.type)}
    /\ ticks > 0

\* ------------------------------------------------ claims: isolation
\* The events that report an error to a client.
ErrorNames == {"error", "auth_error"}

\* The step handles an authenticate or a claim_code event.
HandlesRequest == Handles("authenticate") \/ Handles("claim_code")

\* The step refuses a claim_code event for its rate.
ClaimRateLimited ==
    /\ Handles("claim_code")
    /\ out'.emits[out'.socket] =
          <<ErrorEvent("Rate limit exceeded - slow down!")>>

\* C16: the error and auth_error events a request causes go to the
\* connection that sent it and to no other, and what other connections sent
\* does not decide whether a request is accepted: a claim_code is refused
\* for its rate only when the connection itself has sent more than 10 of
\* them under its identity, the 10 that a connection alone is granted.
C16_ErrorsIsolated ==
    [][/\ HandlesRequest =>
             \A t \in SocketIds \ {out'.socket} :
                 \A k \in 1..Len(out'.emits[t]) :
                     out'.emits[t][k].name \notin ErrorNames
       /\ ClaimRateLimited =>
             Len(claimRun'[out'.socket].results) > MESSAGE_RATE_LIMIT]_vars
=============================================================================
